---- MODULE Spec2Model ----
(***************************************************************************)
(* Model of the metadata resolution of em27-metadata:                      *)
(*   em27_metadata/interfaces.py   EM27MetadataInterface.__init__, get,    *)
(*                                 _test_data_integrity                    *)
(* Instants are seconds counted from the start of the modelled horizon, so *)
(* datetime + timedelta(seconds=1) is + 1.                                 *)
(***************************************************************************)
EXTENDS Integers, Sequences, FiniteSets, TLC

\* ------------------------------------------------------------------ bounds
\* last instant of the modelled horizon: instants are 0 .. MaxT
MaxT == 4
\* most records in the three auxiliary series of a sensor together
MaxAuxRecs == 1
\* last instant of the records handed to the constructor unchecked
MaxCtorT == 3
\* most time series records and campaigns handed to the constructor together
MaxEntries == 2
\* most auxiliary records of a sensor where get runs on every accepted catalog
MaxAcceptedAuxRecs == 2
\* the calls of get that run at the same time
NumThreads == 2
\* records in each series of a candidate catalog of tum_esm_em27_metadata
MaxTumRecs == 2

Time == 0 .. MaxT

\* ------------------------------------------------------- program constants
\* SensorTypes.DifferentUTCOffset.utc_offset default
DefaultUtcOffset == 0
\* CalibrationFactors.pressure / GasSpecificCalibrationFactors.factors default
DefaultCalibration == 1

\* ---------------------------------------------------------------- helpers
Max2(a, b) == IF a > b THEN a ELSE b
Min2(a, b) == IF a < b THEN a ELSE b

Range(s) == {s[i] : i \in 1 .. Len(s)}

RECURSIVE Concat(_)
\* flattens a sequence of sequences (repeated list.append / list.extend)
Concat(ss) == IF ss = <<>> THEN <<>> ELSE Head(ss) \o Concat(Tail(ss))

RECURSIVE sorted_descending(_)
\* mutant of sorted: the elements in descending order
sorted_descending(S) ==
    IF S = {} THEN <<>>
    ELSE LET m == CHOOSE x \in S : \A y \in S : x >= y
         IN <<m>> \o sorted_descending(S \ {m})

RECURSIVE sorted(_)
\* sorted(set(...)): the ascending list of the elements of a set of instants
sorted(S) ==
    IF S = {} THEN <<>>
    ELSE LET m == CHOOSE x \in S : \A y \in S : x <= y
         IN <<m>> \o sorted(S \ {m})

\* mutant of zip_pairs: zip(xs, xs), every breakpoint paired with itself
zip_with_self(xs) == [i \in 1 .. Len(xs) |-> <<xs[i], xs[i]>>]

\* zip(breakpoints[:-1], breakpoints[1:])
zip_pairs(xs) == [i \in 1 .. (IF Len(xs) = 0 THEN 0 ELSE Len(xs) - 1) |-> <<xs[i], xs[i + 1]>>]

\* -------------------------------------------------------------- the inputs
\* a time series item: from_datetime, to_datetime and the property's value
Item(f, t, v) == [from_datetime |-> f, to_datetime |-> t, value |-> v]

LocationMetadata(id, alt) == [location_id |-> id, alt |-> alt]

\* the locations of the test catalog (tests/test_getter_function.py)
TestLocations == <<LocationMetadata("lid1", 500), LocationMetadata("lid2", 600)>>

KnownSensorId == "sid1"
UnknownSensorId == "sid9"
SensorIdInputs == {KnownSensorId, UnknownSensorId}

LocationValues == {"lid1", "lid2"}
UtcOffsetValues == {1}
PressureSourceValues == {"src1"}
CalibrationValues == {2}

\* candidate series over the horizon, each item starting no earlier than the
\* item before it ends; the set still holds the series with an item that
\* starts at the instant the item before it ends, which construction rejects
ItemsOf(Vals) == {Item(f, t, v) : f \in Time, t \in Time, v \in Vals}

RECURSIVE SeriesFrom(_, _)
SeriesFrom(Vals, lo) ==
    {<<>>} \cup
    UNION {{<<d>> \o rest : rest \in SeriesFrom(Vals, d.to_datetime)}
           : d \in {i \in ItemsOf(Vals) : lo <= i.from_datetime /\ i.from_datetime < i.to_datetime}}

LocationSeriesInputs == SeriesFrom(LocationValues, 0)
UtcOffsetSeriesInputs == SeriesFrom(UtcOffsetValues, 0)
PressureSourceSeriesInputs == SeriesFrom(PressureSourceValues, 0)
CalibrationSeriesInputs == SeriesFrom(CalibrationValues, 0)

SensorMetadata(sid, locs, uos, pdss, cfs) ==
    [sensor_id |-> sid, serial_number |-> 51,
     locations |-> locs,
     different_utc_offsets |-> uos,
     different_pressure_data_sources |-> pdss,
     different_calibration_factors |-> cfs]

CampaignMetadata(cid, sids, lids) == [campaign_id |-> cid, sensor_ids |-> sids, location_ids |-> lids]

\* ------------------------------------------------- _test_data_integrity
\* one executed assert: whether it passes, and its message and offending id
Check(pass, message, id) == [pass |-> pass, message |-> message, id |-> id]

IdsOfLocations(locs) == [i \in 1 .. Len(locs) |-> locs[i].location_id]
IdsOfSensors(sens) == [i \in 1 .. Len(sens) |-> sens[i].sensor_id]
IdsOfCampaigns(camps) == [i \in 1 .. Len(camps) |-> camps[i].campaign_id]

\* mutant of ids_unique: len(set(ids)) <= len(ids)
ids_unique_at_most(ids) == Cardinality(Range(ids)) <= Len(ids)

\* len(set(ids)) == len(ids)
ids_unique(ids) == Cardinality(Range(ids)) = Len(ids)

\* mutant of timeseries_checks: an item may start at the instant the item
\* before it ends
timeseries_checks_touching(ts) ==
    [i \in 1 .. Len(ts) |->
        Check(ts[i].from_datetime < ts[i].to_datetime,
              "from_datetime has to less equal to_datetime", "")]
    \o
    [i \in 1 .. (IF Len(ts) = 0 THEN 0 ELSE Len(ts) - 1) |->
        Check(ts[i].to_datetime <= ts[i + 1].from_datetime,
              "time periods are overlapping or not sorted", "")]

\* the asserts on one time series, in the order the loops run them:
\* every item has from_datetime < to_datetime, then every consecutive pair
\* has item_1.to_datetime < item_2.from_datetime
timeseries_checks(ts) ==
    [i \in 1 .. Len(ts) |->
        Check(ts[i].from_datetime < ts[i].to_datetime,
              "from_datetime has to less equal to_datetime", "")]
    \o
    [i \in 1 .. (IF Len(ts) = 0 THEN 0 ELSE Len(ts) - 1) |->
        Check(ts[i].to_datetime < ts[i + 1].from_datetime,
              "time periods are overlapping or not sorted", "")]

sensor_timeseries_checks(s) ==
    timeseries_checks(s.locations) \o
    timeseries_checks(s.different_utc_offsets) \o
    timeseries_checks(s.different_pressure_data_sources) \o
    timeseries_checks(s.different_calibration_factors)

\* mutant of sensor_location_checks: only the first location record of the
\* sensor is looked up
sensor_location_checks_first(s, loc_ids) ==
    [j \in 1 .. Min2(1, Len(s.locations)) |->
        Check(s.locations[j].value \in Range(loc_ids),
              "unknown location id", s.locations[j].value)]

\* 'for l1 in s1.locations: assert l1.location_id in location_ids'
sensor_location_checks(s, loc_ids) ==
    [j \in 1 .. Len(s.locations) |->
        Check(s.locations[j].value \in Range(loc_ids),
              "unknown location id", s.locations[j].value)]

\* mutant of campaign_checks: the location ids of the campaign are not looked up
campaign_checks_sensors_only(c, loc_ids, sen_ids) ==
    [i \in 1 .. Len(c.sensor_ids) |->
        Check(c.sensor_ids[i] \in Range(sen_ids), "unknown sensor id", c.sensor_ids[i])]

campaign_checks(c, loc_ids, sen_ids) ==
    [i \in 1 .. Len(c.sensor_ids) |->
        Check(c.sensor_ids[i] \in Range(sen_ids), "unknown sensor id", c.sensor_ids[i])]
    \o
    [i \in 1 .. Len(c.location_ids) |->
        Check(c.location_ids[i] \in Range(loc_ids), "unknown location id", c.location_ids[i])]

\* mutant of integrity_checks: the asserts on the time series run ahead of the
\* asserts on the references
integrity_checks_series_first(locs, sens, camps) ==
    LET loc_ids == IdsOfLocations(locs)
        sen_ids == IdsOfSensors(sens)
        cam_ids == IdsOfCampaigns(camps)
    IN  <<Check(ids_unique(loc_ids), "location ids are not unique", ""),
          Check(ids_unique(sen_ids), "sensor ids are not unique", ""),
          Check(ids_unique(cam_ids), "campaign ids are not unique", "")>>
        \o
        Concat([i \in 1 .. Len(sens) |-> sensor_timeseries_checks(sens[i])])
        \o
        Concat([i \in 1 .. Len(sens) |-> sensor_location_checks(sens[i], loc_ids)])
        \o
        Concat([i \in 1 .. Len(camps) |-> campaign_checks(camps[i], loc_ids, sen_ids)])

\* every assert of _test_data_integrity in execution order
integrity_checks(locs, sens, camps) ==
    LET loc_ids == IdsOfLocations(locs)
        sen_ids == IdsOfSensors(sens)
        cam_ids == IdsOfCampaigns(camps)
    IN  <<Check(ids_unique(loc_ids), "location ids are not unique", ""),
          Check(ids_unique(sen_ids), "sensor ids are not unique", ""),
          Check(ids_unique(cam_ids), "campaign ids are not unique", "")>>
        \o
        Concat([i \in 1 .. Len(sens) |-> sensor_location_checks(sens[i], loc_ids)])
        \o
        Concat([i \in 1 .. Len(camps) |-> campaign_checks(camps[i], loc_ids, sen_ids)])
        \o
        Concat([i \in 1 .. Len(sens) |-> sensor_timeseries_checks(sens[i])])

\* the outcome of _test_data_integrity: the first assert that fails aborts it
test_data_integrity(locs, sens, camps) ==
    LET cs == integrity_checks(locs, sens, camps)
        failing == {i \in 1 .. Len(cs) : ~cs[i].pass}
    IN  IF failing = {} THEN [error |-> "none", message |-> "", id |-> ""]
        ELSE LET k == CHOOSE i \in failing : \A j \in failing : i <= j
             IN [error |-> "AssertionError", message |-> cs[k].message, id |-> cs[k].id]

\* ------------------------------------------------ EM27MetadataInterface.get
\* parse_ts_data skips an item (the 'continue') when this holds
crop_skips(d, from_datetime, to_datetime) ==
    (d.to_datetime <= from_datetime) \/ (d.from_datetime >= to_datetime)

\* the copy of d after the two conditional assignments of parse_ts_data
cropped(d, from_datetime, to_datetime) ==
    [d EXCEPT !.from_datetime = Max2(d.from_datetime, from_datetime),
              !.to_datetime = Min2(d.to_datetime, to_datetime)]

\* mutant of stored_after_crop: cropped_d = d, the assignments go to the item
\* of the sensor's series
stored_after_crop_in_place(d, cropped_d) == cropped_d

\* cropped_d = d.model_copy(): the assignments go to the copy, so the item
\* stored in the sensor's series is d as it was
stored_after_crop(d, cropped_d) == d

parse_ts_data(ds, from_datetime, to_datetime) ==
    LET kept == SelectSeq(ds, LAMBDA d : ~crop_skips(d, from_datetime, to_datetime))
    IN  [i \in 1 .. Len(kept) |-> cropped(kept[i], from_datetime, to_datetime)]

\* mutant of series_after_parse: the cropped list replaces the sensor's series
series_after_parse_cropped(ds, from_datetime, to_datetime) ==
    parse_ts_data(ds, from_datetime, to_datetime)

\* the sensor's own series once parse_ts_data has run over it
series_after_parse(ds, from_datetime, to_datetime) ==
    [i \in 1 .. Len(ds) |->
        IF crop_skips(ds[i], from_datetime, to_datetime) THEN ds[i]
        ELSE stored_after_crop(ds[i], cropped(ds[i], from_datetime, to_datetime))]

\* mutant of has_gap: two adjacent items count as having a gap
has_gap_or_adjacent(d1, d2) == d1.to_datetime < d2.from_datetime

\* the 'if' inside the loop of fill_ts_data_gaps_with_default
has_gap(d1, d2) == d1.to_datetime < d2.from_datetime - 1

\* mutant of fill_out: the synthetic items take the value of the first item
\* of the series when there is one
fill_out_neighbour(ds, default_value, from_datetime, to_datetime) ==
    LET v == IF Len(ds) = 0 THEN default_value ELSE ds[1].value
    IN  IF Len(ds) = 0 THEN <<Item(from_datetime, to_datetime, v)>>
        ELSE
            (IF ds[1].from_datetime > from_datetime
             THEN <<Item(from_datetime, ds[1].from_datetime - 1, v)>>
             ELSE <<>>)
            \o
            Concat([i \in 1 .. Len(ds) - 1 |->
                      <<ds[i]>> \o
                      (IF has_gap(ds[i], ds[i + 1])
                       THEN <<Item(ds[i].to_datetime + 1, ds[i + 1].from_datetime - 1, v)>>
                       ELSE <<>>)])
            \o
            <<ds[Len(ds)]>>
            \o
            (IF ds[Len(ds)].to_datetime < to_datetime
             THEN <<Item(ds[Len(ds)].to_datetime + 1, to_datetime, v)>>
             ELSE <<>>)

\* mutant of fill_out: no synthetic item behind the last item of the series
fill_out_open_end(ds, default_value, from_datetime, to_datetime) ==
    IF Len(ds) = 0 THEN <<Item(from_datetime, to_datetime, default_value)>>
    ELSE
        (IF ds[1].from_datetime > from_datetime
         THEN <<Item(from_datetime, ds[1].from_datetime - 1, default_value)>>
         ELSE <<>>)
        \o
        Concat([i \in 1 .. Len(ds) - 1 |->
                  <<ds[i]>> \o
                  (IF has_gap(ds[i], ds[i + 1])
                   THEN <<Item(ds[i].to_datetime + 1, ds[i + 1].from_datetime - 1, default_value)>>
                   ELSE <<>>)])
        \o
        <<ds[Len(ds)]>>

\* the list 'out' that fill_ts_data_gaps_with_default builds, before its asserts
fill_out(ds, default_value, from_datetime, to_datetime) ==
    IF Len(ds) = 0 THEN <<Item(from_datetime, to_datetime, default_value)>>
    ELSE
        (IF ds[1].from_datetime > from_datetime
         THEN <<Item(from_datetime, ds[1].from_datetime - 1, default_value)>>
         ELSE <<>>)
        \o
        Concat([i \in 1 .. Len(ds) - 1 |->
                  <<ds[i]>> \o
                  (IF has_gap(ds[i], ds[i + 1])
                   THEN <<Item(ds[i].to_datetime + 1, ds[i + 1].from_datetime - 1, default_value)>>
                   ELSE <<>>)])
        \o
        <<ds[Len(ds)]>>
        \o
        (IF ds[Len(ds)].to_datetime < to_datetime
         THEN <<Item(ds[Len(ds)].to_datetime + 1, to_datetime, default_value)>>
         ELSE <<>>)

\* the asserts that close fill_ts_data_gaps_with_default
fill_asserts_hold(out) ==
    /\ Len(out) > 0
    /\ \A i \in 1 .. Len(out) - 1 : out[i].to_datetime + 1 = out[i + 1].from_datetime

fill_ts_data_gaps_with_default(ds, default_value, from_datetime, to_datetime) ==
    LET out == fill_out(ds, default_value, from_datetime, to_datetime)
    IN  [out |-> out, assertion_error |-> ~fill_asserts_hold(out)]

\* the from_datetime and to_datetime of every item of a list
endpoints(l) == {l[i].from_datetime : i \in 1 .. Len(l)} \cup {l[i].to_datetime : i \in 1 .. Len(l)}

breakpoint_set(sensor_locations, utc_offsets, pressure_data_sources, calibration_factors) ==
    endpoints(sensor_locations) \cup endpoints(utc_offsets)
        \cup endpoints(pressure_data_sources) \cup endpoints(calibration_factors)

\* mutant of segment_candidate: only the start of the segment is looked up
segment_candidate_from_only(p, segment_from_datetime, segment_to_datetime) ==
    p.from_datetime <= segment_from_datetime /\ segment_from_datetime <= p.to_datetime

\* the filter of _get_segment_property
segment_candidate(p, segment_from_datetime, segment_to_datetime) ==
    /\ p.from_datetime <= segment_from_datetime /\ segment_from_datetime <= p.to_datetime
    /\ p.from_datetime <= segment_to_datetime /\ segment_to_datetime <= p.to_datetime

\* _get_segment_property: the item, or the exception it raises
get_segment_property(property_list, segment_from_datetime, segment_to_datetime) ==
    LET candidates == SelectSeq(property_list,
                        LAMBDA p : segment_candidate(p, segment_from_datetime, segment_to_datetime))
    IN  IF Len(candidates) > 1 THEN [raises |-> "AssertionError", item |-> Item(0, 0, 0)]
        ELSE IF Len(candidates) = 0 THEN [raises |-> "IndexError", item |-> Item(0, 0, 0)]
        ELSE [raises |-> "none", item |-> candidates[1]]

\* next(filter(lambda l: l.location_id == location_id, self.locations))
find_location(locs, location_id) ==
    LET hits == SelectSeq(locs, LAMBDA l : l.location_id = location_id)
    IN  IF Len(hits) = 0 THEN [raises |-> "StopIteration", location |-> LocationMetadata("", 0)]
        ELSE [raises |-> "none", location |-> hits[1]]

SensorDataContext(sensor, f, t, location, uo, pds, cf) ==
    [sensor_id |-> sensor.sensor_id,
     serial_number |-> sensor.serial_number,
     from_datetime |-> f,
     to_datetime |-> t,
     location |-> location,
     utc_offset |-> uo.value,
     pressure_data_source |-> pds.value,
     calibration_factors |-> cf.value,
     multiple_ctx_on_this_date |-> FALSE]

\* one pass of the loop over the segments: what it raises (IndexError is the
\* 'continue') and the context it appends
segment_step(locs, sensor, sensor_locations, utc_offsets, pressure_data_sources, calibration_factors, seg) ==
    LET sl == get_segment_property(sensor_locations, seg[1], seg[2])
        uo == get_segment_property(utc_offsets, seg[1], seg[2])
        pds == get_segment_property(pressure_data_sources, seg[1], seg[2])
        cf == get_segment_property(calibration_factors, seg[1], seg[2])
        first_raise ==
            IF sl.raises # "none" THEN sl.raises
            ELSE IF uo.raises # "none" THEN uo.raises
            ELSE IF pds.raises # "none" THEN pds.raises
            ELSE cf.raises
        location == find_location(locs, sl.item.value)
    IN  IF first_raise # "none" THEN [raises |-> first_raise, ctx |-> <<>>]
        ELSE IF location.raises # "none" THEN [raises |-> "AssertionError", ctx |-> <<>>]
        ELSE [raises |-> "none",
              ctx |-> <<SensorDataContext(sensor, seg[1], seg[2], location.location,
                                          uo.item, pds.item, cf.item)>>]

\* mutant of step_escapes: no except clause, an IndexError leaves get too
step_escapes_uncaught(raises) == raises # "none"

\* 'except IndexError: continue': an IndexError ends the pass over the segment,
\* any other exception leaves get
step_escapes(raises) == raises \notin {"none", "IndexError"}

Result(error, message, ctxs) == [error |-> error, message |-> message, contexts |-> ctxs]

\* mutant of mark_multiple_ctx: the marker is set on the contexts that follow
\* the first one
mark_multiple_ctx_after_first(ctxs) ==
    [i \in 1 .. Len(ctxs) |-> [ctxs[i] EXCEPT !.multiple_ctx_on_this_date = (i > 1)]]

\* 'if len(sensor_data_contexts) > 1: for ctx in ...: ctx.multiple_ctx_on_this_date = True'
mark_multiple_ctx(ctxs) ==
    [i \in 1 .. Len(ctxs) |-> [ctxs[i] EXCEPT !.multiple_ctx_on_this_date = (Len(ctxs) > 1)]]

\* the body of get after the two argument checks
resolve(locs, sensor, from_datetime, to_datetime) ==
    LET sensor_locations == parse_ts_data(sensor.locations, from_datetime, to_datetime)
        uo_fill == fill_ts_data_gaps_with_default(
                      parse_ts_data(sensor.different_utc_offsets, from_datetime, to_datetime),
                      DefaultUtcOffset, from_datetime, to_datetime)
        pds_fill == fill_ts_data_gaps_with_default(
                      parse_ts_data(sensor.different_pressure_data_sources, from_datetime, to_datetime),
                      sensor.sensor_id, from_datetime, to_datetime)
        cf_fill == fill_ts_data_gaps_with_default(
                      parse_ts_data(sensor.different_calibration_factors, from_datetime, to_datetime),
                      DefaultCalibration, from_datetime, to_datetime)
        breakpoints == sorted(breakpoint_set(sensor_locations, uo_fill.out, pds_fill.out, cf_fill.out))
        segments == zip_pairs(breakpoints)
        steps == [i \in 1 .. Len(segments) |->
                    segment_step(locs, sensor, sensor_locations, uo_fill.out, pds_fill.out,
                                 cf_fill.out, segments[i])]
        sensor_data_contexts == Concat([i \in 1 .. Len(steps) |-> steps[i].ctx])
        escaping == {i \in 1 .. Len(steps) : step_escapes(steps[i].raises)}
    IN  IF uo_fill.assertion_error \/ pds_fill.assertion_error \/ cf_fill.assertion_error
        THEN Result("AssertionError", "This is a bug in the library", <<>>)
        ELSE IF escaping # {}
        THEN LET k == CHOOSE i \in escaping : \A j \in escaping : i <= j
             IN  Result(steps[k].raises, "This is a bug in the library", <<>>)
        ELSE Result("none", "", mark_multiple_ctx(sensor_data_contexts))

\* mutant of unknown_sensor_result: an unknown sensor has no contexts
unknown_sensor_empty(sensor_id) == Result("none", "", <<>>)

\* raise ValueError(f'No location data for sensor_id "{sensor_id}"')
unknown_sensor_result(sensor_id) == Result("ValueError", "No location data for sensor_id", <<>>)

\* mutant of invalid_range: a window of one instant is rejected too
invalid_range_or_equal(from_datetime, to_datetime) == from_datetime >= to_datetime

\* the check 'if from_datetime > to_datetime'
invalid_range(from_datetime, to_datetime) == from_datetime > to_datetime

\* next(filter(lambda s: s.sensor_id == sensor_id, self.sensors))
find_sensor(sens, sensor_id) ==
    CHOOSE i \in 1 .. Len(sens) :
        /\ sens[i].sensor_id = sensor_id
        /\ \A j \in 1 .. i - 1 : sens[j].sensor_id # sensor_id

\* mutant of get: the range check runs ahead of the sensor check
get_range_first(locs, sens, sen_ids, sensor_id, from_datetime, to_datetime) ==
    IF invalid_range(from_datetime, to_datetime)
    THEN Result("ValueError", "from_datetime > to_datetime", <<>>)
    ELSE IF sensor_id \notin Range(sen_ids)
         THEN unknown_sensor_result(sensor_id)
         ELSE resolve(locs, sens[find_sensor(sens, sensor_id)], from_datetime, to_datetime)

\* what get(sensor_id, from_datetime, to_datetime) returns or raises
get(locs, sens, sen_ids, sensor_id, from_datetime, to_datetime) ==
    IF sensor_id \notin Range(sen_ids)
    THEN unknown_sensor_result(sensor_id)
    ELSE IF invalid_range(from_datetime, to_datetime)
         THEN Result("ValueError", "from_datetime > to_datetime", <<>>)
         ELSE resolve(locs, sens[find_sensor(sens, sensor_id)], from_datetime, to_datetime)

\* the series of a sensor once get has run parse_ts_data over each of them
sensor_after_get(s, from_datetime, to_datetime) ==
    [s EXCEPT
       !.locations = series_after_parse(@, from_datetime, to_datetime),
       !.different_utc_offsets = series_after_parse(@, from_datetime, to_datetime),
       !.different_pressure_data_sources = series_after_parse(@, from_datetime, to_datetime),
       !.different_calibration_factors = series_after_parse(@, from_datetime, to_datetime)]

\* ------------------------------- tum_esm_em27_metadata: _test_data_integrity
\* The catalog of the tum_esm package holds the calibration of a sensor in two
\* series, different_pressure_calibration_factors and
\* different_output_calibration_factors; a record of the sensor's
\* different_calibration_factors stands for one record of each, over the same
\* interval.
tum_pressure_calibration_factors(s) == s.different_calibration_factors
tum_output_calibration_factors(s) == s.different_calibration_factors

\* the asserts on one time series: every item has from_datetime <= to_datetime,
\* then every consecutive pair has item_1.to_datetime <= item_2.from_datetime
tum_timeseries_checks(ts) ==
    [i \in 1 .. Len(ts) |->
        Check(ts[i].from_datetime <= ts[i].to_datetime,
              "from_datetime has to less equal to_datetime", "")]
    \o
    [i \in 1 .. (IF Len(ts) = 0 THEN 0 ELSE Len(ts) - 1) |->
        Check(ts[i].to_datetime <= ts[i + 1].from_datetime,
              "time periods are overlapping or not sorted", "")]

tum_sensor_timeseries_checks(s) ==
    tum_timeseries_checks(s.locations) \o
    tum_timeseries_checks(s.different_utc_offsets) \o
    tum_timeseries_checks(s.different_pressure_data_sources) \o
    tum_timeseries_checks(tum_pressure_calibration_factors(s)) \o
    tum_timeseries_checks(tum_output_calibration_factors(s))

\* 'for s2 in c1.stations: ...; for lid in c1.additional_location_ids: ...':
\* the sensor ids of the campaign are its stations, its location ids the
\* additional ones
tum_campaign_checks(c, loc_ids, sen_ids) ==
    [i \in 1 .. Len(c.sensor_ids) |->
        Check(c.sensor_ids[i] \in Range(sen_ids), "unknown sensor id", c.sensor_ids[i])]
    \o
    [i \in 1 .. Len(c.location_ids) |->
        Check(c.location_ids[i] \in Range(loc_ids), "unknown location id", c.location_ids[i])]

\* every assert of _test_data_integrity in execution order
tum_integrity_checks(locs, sens, camps) ==
    LET loc_ids == IdsOfLocations(locs)
        sen_ids == IdsOfSensors(sens)
        cam_ids == IdsOfCampaigns(camps)
    IN  <<Check(ids_unique(loc_ids), "location ids are not unique", ""),
          Check(ids_unique(sen_ids), "sensor ids are not unique", ""),
          Check(ids_unique(cam_ids), "campaign ids are not unique", "")>>
        \o
        Concat([i \in 1 .. Len(sens) |-> sensor_location_checks(sens[i], loc_ids)])
        \o
        Concat([i \in 1 .. Len(camps) |-> tum_campaign_checks(camps[i], loc_ids, sen_ids)])
        \o
        Concat([i \in 1 .. Len(sens) |-> tum_sensor_timeseries_checks(sens[i])])

\* the outcome of _test_data_integrity: the first assert that fails aborts it
tum_test_data_integrity(locs, sens, camps) ==
    LET cs == tum_integrity_checks(locs, sens, camps)
        failing == {i \in 1 .. Len(cs) : ~cs[i].pass}
    IN  IF failing = {} THEN [error |-> "none", message |-> "", id |-> ""]
        ELSE LET k == CHOOSE i \in failing : \A j \in failing : i <= j
             IN [error |-> "AssertionError", message |-> cs[k].message, id |-> cs[k].id]

\* ------------------------- tum_esm_em27_metadata: EM27MetadataInterface.get
\* parse_ts_data skips an item (the 'continue') when this holds
tum_crop_skips(d, from_datetime, to_datetime) ==
    (d.to_datetime < from_datetime) \/ (d.from_datetime > to_datetime)

\* the copies d.copy() of the items not skipped, after the two conditional
\* assignments
tum_parse_ts_data(ds, from_datetime, to_datetime) ==
    LET kept == SelectSeq(ds, LAMBDA d : ~tum_crop_skips(d, from_datetime, to_datetime))
    IN  [i \in 1 .. Len(kept) |-> cropped(kept[i], from_datetime, to_datetime)]

\* the list 'out' that fill_ts_data_gaps_with_default builds, before its
\* asserts: each pass of the loop appends ds[i], the gap item if there is a
\* gap, and ds[i + 1]; ds[-1] is appended once more behind the loop
tum_fill_out(ds, default_value, from_datetime, to_datetime) ==
    IF Len(ds) = 0 THEN <<Item(from_datetime, to_datetime, default_value)>>
    ELSE
        (IF ds[1].from_datetime > from_datetime
         THEN <<Item(from_datetime, ds[1].from_datetime - 1, default_value)>>
         ELSE <<>>)
        \o
        Concat([i \in 1 .. Len(ds) - 1 |->
                  <<ds[i]>> \o
                  (IF ds[i].to_datetime < ds[i + 1].from_datetime - 1
                   THEN <<Item(ds[i].to_datetime + 1, ds[i + 1].from_datetime - 1, default_value)>>
                   ELSE <<>>) \o
                  <<ds[i + 1]>>])
        \o
        <<ds[Len(ds)]>>
        \o
        (IF ds[Len(ds)].to_datetime < to_datetime
         THEN <<Item(ds[Len(ds)].to_datetime + 1, to_datetime, default_value)>>
         ELSE <<>>)

\* the asserts that close fill_ts_data_gaps_with_default
tum_fill_asserts_hold(out) ==
    /\ Len(out) > 0
    /\ \A i \in 1 .. Len(out) - 1 : out[i].to_datetime + 1 = out[i + 1].from_datetime

tum_fill_ts_data_gaps_with_default(ds, default_value, from_datetime, to_datetime) ==
    LET out == tum_fill_out(ds, default_value, from_datetime, to_datetime)
    IN  [out |-> out, assertion_error |-> ~tum_fill_asserts_hold(out)]

\* the 'continue' of each of the nested loops: x and [t_from, t_to] share no
\* instant
tum_disjoint(t_from, t_to, x) == (t_to < x.from_datetime) \/ (x.to_datetime < t_from)

tum_SensorDataContext(sensor, f, t, location, uo, pds, pcf, ocf) ==
    [sensor_id |-> sensor.sensor_id,
     serial_number |-> sensor.serial_number,
     utc_offset |-> uo.value,
     pressure_data_source |-> pds.value,
     pressure_calibration_factor |-> pcf.value,
     output_calibration_factor |-> ocf.value,
     from_datetime |-> f,
     to_datetime |-> t,
     location |-> location]

\* the contexts the loops over output_calibration_factors append within
\* [t4_from, t4_to]
tum_loop_ocf(sensor, location, uo, pds, pcf, ocfs, t4_from, t4_to) ==
    Concat([e \in 1 .. Len(ocfs) |->
        IF tum_disjoint(t4_from, t4_to, ocfs[e]) THEN <<>>
        ELSE <<tum_SensorDataContext(sensor,
                                     Max2(t4_from, ocfs[e].from_datetime),
                                     Min2(t4_to, ocfs[e].to_datetime),
                                     location, uo, pds, pcf, ocfs[e])>>])

tum_loop_pcf(sensor, location, uo, pds, pcfs, ocfs, t3_from, t3_to) ==
    Concat([d \in 1 .. Len(pcfs) |->
        IF tum_disjoint(t3_from, t3_to, pcfs[d]) THEN <<>>
        ELSE tum_loop_ocf(sensor, location, uo, pds, pcfs[d], ocfs,
                          Max2(t3_from, pcfs[d].from_datetime),
                          Min2(t3_to, pcfs[d].to_datetime))])

tum_loop_pds(sensor, location, uo, pdss, pcfs, ocfs, t2_from, t2_to) ==
    Concat([c \in 1 .. Len(pdss) |->
        IF tum_disjoint(t2_from, t2_to, pdss[c]) THEN <<>>
        ELSE tum_loop_pcf(sensor, location, uo, pdss[c], pcfs, ocfs,
                          Max2(t2_from, pdss[c].from_datetime),
                          Min2(t2_to, pdss[c].to_datetime))])

tum_loop_uo(sensor, location, uos, pdss, pcfs, ocfs, t1_from, t1_to) ==
    Concat([b \in 1 .. Len(uos) |->
        IF tum_disjoint(t1_from, t1_to, uos[b]) THEN <<>>
        ELSE tum_loop_pds(sensor, location, uos[b], pdss, pcfs, ocfs,
                          Max2(t1_from, uos[b].from_datetime),
                          Min2(t1_to, uos[b].to_datetime))])

\* the body of get after the two asserts on its arguments
tum_resolve(locs, sensor, from_datetime, to_datetime) ==
    LET sensor_locations == tum_parse_ts_data(sensor.locations, from_datetime, to_datetime)
        uo_fill == tum_fill_ts_data_gaps_with_default(
                      tum_parse_ts_data(sensor.different_utc_offsets, from_datetime, to_datetime),
                      DefaultUtcOffset, from_datetime, to_datetime)
        pds_fill == tum_fill_ts_data_gaps_with_default(
                      tum_parse_ts_data(sensor.different_pressure_data_sources,
                                        from_datetime, to_datetime),
                      sensor.sensor_id, from_datetime, to_datetime)
        pcf_fill == tum_fill_ts_data_gaps_with_default(
                      tum_parse_ts_data(tum_pressure_calibration_factors(sensor),
                                        from_datetime, to_datetime),
                      DefaultCalibration, from_datetime, to_datetime)
        ocf_fill == tum_fill_ts_data_gaps_with_default(
                      tum_parse_ts_data(tum_output_calibration_factors(sensor),
                                        from_datetime, to_datetime),
                      DefaultCalibration, from_datetime, to_datetime)
        found == [a \in 1 .. Len(sensor_locations) |->
                    find_location(locs, sensor_locations[a].value)]
        unknown == {a \in 1 .. Len(found) : found[a].raises # "none"}
    IN  IF \/ uo_fill.assertion_error \/ pds_fill.assertion_error
           \/ pcf_fill.assertion_error \/ ocf_fill.assertion_error
        THEN Result("AssertionError", "This is a bug in the library", <<>>)
        ELSE IF unknown # {}
        THEN Result("ValueError", "unknown location id", <<>>)
        ELSE Result("none", "",
                    Concat([a \in 1 .. Len(sensor_locations) |->
                        tum_loop_uo(sensor, found[a].location, uo_fill.out, pds_fill.out,
                                    pcf_fill.out, ocf_fill.out,
                                    sensor_locations[a].from_datetime,
                                    sensor_locations[a].to_datetime)]))

\* mutant of tum_get: the assert on the range runs ahead of the one on the sensor
tum_get_range_first(locs, sens, sen_ids, sensor_id, from_datetime, to_datetime) ==
    IF ~(from_datetime <= to_datetime)
    THEN Result("AssertionError", "from_datetime > to_datetime", <<>>)
    ELSE IF sensor_id \notin Range(sen_ids)
         THEN Result("AssertionError", "No location data for sensor_id", <<>>)
         ELSE tum_resolve(locs, sens[find_sensor(sens, sensor_id)], from_datetime, to_datetime)

\* what get(sensor_id, from_datetime, to_datetime) returns or raises
tum_get(locs, sens, sen_ids, sensor_id, from_datetime, to_datetime) ==
    IF sensor_id \notin Range(sen_ids)
    THEN Result("AssertionError", "No location data for sensor_id", <<>>)
    ELSE IF ~(from_datetime <= to_datetime)
         THEN Result("AssertionError", "from_datetime > to_datetime", <<>>)
         ELSE tum_resolve(locs, sens[find_sensor(sens, sensor_id)], from_datetime, to_datetime)

\* ------------------------------------------------------------ the state
VARIABLES
    locations,      \* self.locations
    sensors,        \* self.sensors
    campaigns,      \* self.campaigns
    location_ids,   \* self.location_ids
    sensor_ids,     \* self.sensor_ids
    campaign_ids,   \* self.campaign_ids
    call,           \* the arguments of the latest call of get
    result,         \* what that call returned or raised
    memo,           \* an earlier call of get and its result, once one is kept
    construction,   \* how __init__ ended: the outcome of _test_data_integrity
    threads,        \* the position and the local variables of each running get
    tum_result      \* what get of tum_esm_em27_metadata returned or raised for the call

vars == <<locations, sensors, campaigns, location_ids, sensor_ids, campaign_ids,
          call, result, memo, construction, threads, tum_result>>

catalog == <<locations, sensors, campaigns, location_ids, sensor_ids, campaign_ids>>

Call(sensor_id, from_datetime, to_datetime) ==
    [sensor_id |-> sensor_id, from_datetime |-> from_datetime, to_datetime |-> to_datetime]

NoCall == Call("", 0, 0)
NotCalled == Result("not called", "", <<>>)
NoMemo == [kept |-> FALSE, call |-> NoCall, result |-> NotCalled, others |-> FALSE]
NoThreads == <<>>

\* EM27MetadataInterface.__init__: the fields are set and the integrity test
\* passes, otherwise no object exists
Constructed(locs, sens, camps) ==
    /\ test_data_integrity(locs, sens, camps).error = "none"
    /\ construction = test_data_integrity(locs, sens, camps)
    /\ locations = locs
    /\ sensors = sens
    /\ campaigns = camps
    /\ location_ids = IdsOfLocations(locs)
    /\ sensor_ids = IdsOfSensors(sens)
    /\ campaign_ids = IdsOfCampaigns(camps)

Init ==
    /\ \E uos \in UtcOffsetSeriesInputs :
         /\ Len(uos) <= MaxAuxRecs
         /\ \E pdss \in PressureSourceSeriesInputs :
              /\ Len(uos) + Len(pdss) <= MaxAuxRecs
              /\ \E cfs \in CalibrationSeriesInputs :
                   /\ Len(uos) + Len(pdss) + Len(cfs) <= MaxAuxRecs
                   /\ \E locs \in LocationSeriesInputs :
                        Constructed(TestLocations,
                                    <<SensorMetadata(KnownSensorId, locs, uos, pdss, cfs)>>,
                                    <<>>)
    /\ call = NoCall
    /\ result = NotCalled
    /\ memo = NoMemo
    /\ threads = NoThreads
    /\ tum_result = NotCalled

\* the sensors list after get(sensor_id, from_datetime, to_datetime): the
\* call reaches parse_ts_data only past the two argument checks
sensors_after_get(sens, sen_ids, sensor_id, from_datetime, to_datetime) ==
    IF sensor_id \notin Range(sen_ids) \/ invalid_range(from_datetime, to_datetime) THEN sens
    ELSE [sens EXCEPT ![find_sensor(sens, sensor_id)] =
                          sensor_after_get(@, from_datetime, to_datetime)]

\* one call of get
GetCall(sensor_id, from_datetime, to_datetime) ==
    /\ call' = Call(sensor_id, from_datetime, to_datetime)
    /\ result' = get(locations, sensors, sensor_ids, sensor_id, from_datetime, to_datetime)
    /\ sensors' = sensors_after_get(sensors, sensor_ids, sensor_id, from_datetime, to_datetime)
    /\ UNCHANGED <<locations, campaigns, location_ids, sensor_ids, campaign_ids>>
    /\ UNCHANGED <<construction, threads, tum_result>>

\* get called on the object as constructed
Get ==
    /\ call = NoCall
    /\ \E sensor_id \in SensorIdInputs, from_datetime \in Time, to_datetime \in Time :
          GetCall(sensor_id, from_datetime, to_datetime)
    /\ UNCHANGED memo

Next == Get

Spec == Init /\ [][Next]_vars

\* ------------------------------------------------- the constructor alone
\* what a caller may hand to the constructor: lists of up to two locations,
\* sensors and campaigns, ids repeated or not, references resolving or not,
\* records of any two instants in any order
SecondSensorId == "sid2"
CampaignIds == {"cid1", "cid2"}

CtorTime == 0 .. MaxCtorT
CtorItems(Vals) == {Item(f, t, v) : f \in CtorTime, t \in CtorTime, v \in Vals}
CtorSeries(Vals, k) == [1 .. k -> CtorItems(Vals)]

\* the sensors with the given id and n records in their four series
SensorInputs(sid, n) ==
    UNION {{SensorMetadata(sid, locs, uos, pdss, cfs) :
               locs \in CtorSeries(LocationValues, k[1]),
               uos \in CtorSeries(UtcOffsetValues, k[2]),
               pdss \in CtorSeries(PressureSourceValues, k[3]),
               cfs \in CtorSeries(CalibrationValues, k[4])}
           : k \in {c \in [1 .. 4 -> 0 .. n] : c[1] + c[2] + c[3] + c[4] = n}}

\* the lists of at most two sensors with at most n records
SensorListInputs(n) ==
    {<<>>}
    \cup UNION {{<<s>> : s \in SensorInputs(KnownSensorId, m)} : m \in 0 .. n}
    \cup UNION {{<<s1, s2>> : s1 \in SensorInputs(KnownSensorId, m[1]),
                              s2 \in SensorInputs(m[3], m[2])}
                : m \in {c \in (0 .. n) \X (0 .. n) \X {KnownSensorId, SecondSensorId} :
                            c[1] + c[2] <= n}}

LocationListInputs == UNION {[1 .. k -> Range(TestLocations)] : k \in 0 .. 2}

CampaignInputs ==
    {CampaignMetadata(cid, sids, lids) :
        cid \in CampaignIds,
        sids \in {<<>>, <<KnownSensorId>>, <<SecondSensorId>>},
        lids \in {<<>>, <<"lid1">>, <<"lid2">>}}

CampaignListInputs == UNION {[1 .. k -> CampaignInputs] : k \in 0 .. Min2(2, MaxEntries)}

NotConstructed == [error |-> "not constructed", message |-> "", id |-> ""]

\* EM27MetadataInterface(locations, sensors, campaigns): __init__ sets the six
\* fields and then runs _test_data_integrity, whose first failing assert
\* leaves __init__
EM27MetadataInterface(locs, sens, camps) ==
    /\ locations' = locs
    /\ sensors' = sens
    /\ campaigns' = camps
    /\ location_ids' = IdsOfLocations(locs)
    /\ sensor_ids' = IdsOfSensors(sens)
    /\ campaign_ids' = IdsOfCampaigns(camps)
    /\ construction' = test_data_integrity(locs, sens, camps)

InitConstruct ==
    /\ locations = <<>>
    /\ sensors = <<>>
    /\ campaigns = <<>>
    /\ location_ids = <<>>
    /\ sensor_ids = <<>>
    /\ campaign_ids = <<>>
    /\ construction = NotConstructed
    /\ call = NoCall
    /\ result = NotCalled
    /\ memo = NoMemo
    /\ threads = NoThreads
    /\ tum_result = NotCalled

\* the constructor called on unchecked lists
Construct ==
    /\ construction = NotConstructed
    /\ \E camps \in CampaignListInputs :
          \E sens \in SensorListInputs(MaxEntries - Len(camps)) :
              \E locs \in LocationListInputs :
                  EM27MetadataInterface(locs, sens, camps)
    /\ UNCHANGED <<call, result, memo, threads, tum_result>>

NextConstruct == Construct

SpecConstruct == InitConstruct /\ [][NextConstruct]_vars

\* ------------------------------------- get on whatever the constructor accepts
\* the series whose records end within the constructor's horizon
Within(series) == {ts \in series : \A i \in 1 .. Len(ts) : ts[i].to_datetime <= MaxCtorT}
AcceptedLocationSeriesInputs == Within(LocationSeriesInputs)
AcceptedUtcOffsetSeriesInputs == Within(UtcOffsetSeriesInputs)
AcceptedPressureSourceSeriesInputs == Within(PressureSourceSeriesInputs)
AcceptedCalibrationSeriesInputs == Within(CalibrationSeriesInputs)

\* one sensor over any list of locations: the constructor decides which of
\* the candidate catalogs exist
InitAccepted ==
    /\ \E uos \in AcceptedUtcOffsetSeriesInputs :
         /\ Len(uos) <= MaxAcceptedAuxRecs
         /\ \E pdss \in AcceptedPressureSourceSeriesInputs :
              /\ Len(uos) + Len(pdss) <= MaxAcceptedAuxRecs
              /\ \E cfs \in AcceptedCalibrationSeriesInputs :
                   /\ Len(uos) + Len(pdss) + Len(cfs) <= MaxAcceptedAuxRecs
                   /\ \E locs \in AcceptedLocationSeriesInputs :
                        \E loc_list \in LocationListInputs :
                            Constructed(loc_list,
                                        <<SensorMetadata(KnownSensorId, locs, uos, pdss, cfs)>>,
                                        <<>>)
    /\ call = NoCall
    /\ result = NotCalled
    /\ memo = NoMemo
    /\ threads = NoThreads
    /\ tum_result = NotCalled

NextAccepted == Get

SpecAccepted == InitAccepted /\ [][NextAccepted]_vars

\* ------------------------------------------- sequences of calls of get
\* the sensors of the call sequences: located over the whole horizon, with
\* every series of UTC offsets
InitHistory ==
    /\ \E uos \in UtcOffsetSeriesInputs :
         /\ Len(uos) <= MaxAuxRecs
         /\ Constructed(TestLocations,
                        <<SensorMetadata(KnownSensorId, <<Item(0, MaxT, "lid1")>>,
                                         uos, <<>>, <<>>)>>,
                        <<>>)
    /\ call = NoCall
    /\ result = NotCalled
    /\ memo = NoMemo
    /\ threads = NoThreads
    /\ tum_result = NotCalled

\* the calls of the sequences: every window for the known sensor, one valid
\* and one inverted window for the unknown one
HistoryCalls ==
    {Call(KnownSensorId, f, t) : f \in Time, t \in Time}
        \cup {Call(UnknownSensorId, 0, MaxT), Call(UnknownSensorId, MaxT, 0)}

\* a call of get that is kept to compare later calls with
GetKeep ==
    /\ ~memo.kept
    /\ \E c \in HistoryCalls : GetCall(c.sensor_id, c.from_datetime, c.to_datetime)
    /\ memo' = [kept |-> TRUE, call |-> call', result |-> result', others |-> FALSE]

\* any other call of get, before or after the kept one
GetAgain ==
    /\ \E c \in HistoryCalls : GetCall(c.sensor_id, c.from_datetime, c.to_datetime)
    /\ memo' = IF memo.kept /\ call' # memo.call THEN [memo EXCEPT !.others = TRUE] ELSE memo

NextHistory == GetKeep \/ GetAgain

SpecHistory == InitHistory /\ [][NextHistory]_vars

\* ------------------------------------------- calls of get that interleave
\* Each thread runs one call of get, a step at a time; a step is a stretch of
\* get that reads the catalog once. The local variables of get are the
\* thread's own; self.sensor_ids, self.sensors, self.locations and the items
\* of the sensor's series are the ones every thread reads.
Threads == 1 .. NumThreads

IdleThread ==
    [pc |-> "idle", call |-> NoCall, sensor |-> 0,
     sensor_locations |-> <<>>, utc_offsets |-> <<>>,
     pressure_data_sources |-> <<>>, calibration_factors |-> <<>>,
     segments |-> <<>>, next |-> 0, sensor_data_contexts |-> <<>>,
     result |-> NotCalled, overlapped |-> FALSE]

Running(t) == t.pc \notin {"idle", "done"}

\* thread th moves on; overlapped records that another call was under way
Step(th, t) ==
    threads' = [threads EXCEPT ![th] =
                   [t EXCEPT !.overlapped = @ \/ \E o \in Threads \ {th} : Running(threads[o])]]

\* the thread's call ends by returning or raising
Ended(t, res) == [t EXCEPT !.pc = "done", !.result = res]

InitConcurrent ==
    /\ \E uos \in UtcOffsetSeriesInputs :
         /\ Len(uos) <= MaxAuxRecs
         /\ Constructed(TestLocations,
                        <<SensorMetadata(KnownSensorId, <<Item(0, MaxT, "lid1")>>,
                                         uos, <<>>, <<>>)>>,
                        <<>>)
    /\ call = NoCall
    /\ result = NotCalled
    /\ memo = NoMemo
    /\ threads = [th \in Threads |-> IdleThread]
    /\ tum_result = NotCalled

\* the calls that interleave: every window from <= to and one inverted window
\* for the known sensor, one window for the unknown one
ConcurrentCalls ==
    {c \in {Call(KnownSensorId, f, t) : f \in Time, t \in Time} :
        c.from_datetime <= c.to_datetime}
        \cup {Call(KnownSensorId, MaxT, 0), Call(UnknownSensorId, 0, MaxT)}

\* get is called: the arguments are bound
Start(th) ==
    /\ threads[th].pc = "idle"
    /\ \E c \in ConcurrentCalls : Step(th, [threads[th] EXCEPT !.pc = "sensor", !.call = c])
    /\ UNCHANGED <<catalog, call, result, memo, construction, tum_result>>

\* 'if sensor_id not in self.sensor_ids: raise ...; sensor = next(filter(...))'
CheckSensor(th) ==
    LET t == threads[th]
    IN  /\ t.pc = "sensor"
        /\ Step(th, IF t.call.sensor_id \notin Range(sensor_ids)
                    THEN Ended(t, unknown_sensor_result(t.call.sensor_id))
                    ELSE [t EXCEPT !.pc = "range",
                                   !.sensor = find_sensor(sensors, t.call.sensor_id)])
        /\ UNCHANGED <<catalog, call, result, memo, construction, tum_result>>

\* 'if from_datetime > to_datetime: raise ValueError(...)'
CheckRange(th) ==
    LET t == threads[th]
    IN  /\ t.pc = "range"
        /\ Step(th, IF invalid_range(t.call.from_datetime, t.call.to_datetime)
                    THEN Ended(t, Result("ValueError", "from_datetime > to_datetime", <<>>))
                    ELSE [t EXCEPT !.pc = "sensor_locations"])
        /\ UNCHANGED <<catalog, call, result, memo, construction, tum_result>>

\* what a step that reads one series of the sensor leaves of the catalog
series_step_frame == UNCHANGED <<locations, campaigns, location_ids, sensor_ids, campaign_ids, call, result, memo, construction, tum_result>>

\* 'sensor_locations = parse_ts_data(sensor.locations)'
ParseLocations(th) ==
    LET t == threads[th]
        f == t.call.from_datetime
        u == t.call.to_datetime
    IN  /\ t.pc = "sensor_locations"
        /\ Step(th, [t EXCEPT !.pc = "utc_offsets",
                              !.sensor_locations = parse_ts_data(sensors[t.sensor].locations, f, u)])
        /\ sensors' = [sensors EXCEPT ![t.sensor].locations = series_after_parse(@, f, u)]
        /\ series_step_frame

\* the thread after fill_ts_data_gaps_with_default: its asserts may end the call
after_fill(t, filled, next_pc) ==
    IF filled.assertion_error
    THEN Ended(t, Result("AssertionError", "This is a bug in the library", <<>>))
    ELSE [t EXCEPT !.pc = next_pc]

\* 'utc_offsets = fill_ts_data_gaps_with_default(parse_ts_data(sensor.different_utc_offsets), ...)'
FillUtcOffsets(th) ==
    LET t == threads[th]
        f == t.call.from_datetime
        u == t.call.to_datetime
        filled == fill_ts_data_gaps_with_default(
                      parse_ts_data(sensors[t.sensor].different_utc_offsets, f, u),
                      DefaultUtcOffset, f, u)
    IN  /\ t.pc = "utc_offsets"
        /\ Step(th, [after_fill(t, filled, "pressure_data_sources") EXCEPT !.utc_offsets = filled.out])
        /\ sensors' = [sensors EXCEPT ![t.sensor].different_utc_offsets = series_after_parse(@, f, u)]
        /\ series_step_frame

\* 'pressure_data_sources = fill_ts_data_gaps_with_default(parse_ts_data(...), ...)'
FillPressureDataSources(th) ==
    LET t == threads[th]
        f == t.call.from_datetime
        u == t.call.to_datetime
        filled == fill_ts_data_gaps_with_default(
                      parse_ts_data(sensors[t.sensor].different_pressure_data_sources, f, u),
                      sensors[t.sensor].sensor_id, f, u)
    IN  /\ t.pc = "pressure_data_sources"
        /\ Step(th, [after_fill(t, filled, "calibration_factors") EXCEPT
                        !.pressure_data_sources = filled.out])
        /\ sensors' = [sensors EXCEPT
                          ![t.sensor].different_pressure_data_sources = series_after_parse(@, f, u)]
        /\ series_step_frame

\* 'calibration_factors = fill_ts_data_gaps_with_default(parse_ts_data(...), ...)'
FillCalibrationFactors(th) ==
    LET t == threads[th]
        f == t.call.from_datetime
        u == t.call.to_datetime
        filled == fill_ts_data_gaps_with_default(
                      parse_ts_data(sensors[t.sensor].different_calibration_factors, f, u),
                      DefaultCalibration, f, u)
    IN  /\ t.pc = "calibration_factors"
        /\ Step(th, [after_fill(t, filled, "breakpoints") EXCEPT
                        !.calibration_factors = filled.out])
        /\ sensors' = [sensors EXCEPT
                          ![t.sensor].different_calibration_factors = series_after_parse(@, f, u)]
        /\ series_step_frame

\* 'breakpoints = list(sorted(set([...])))' and the zip the loop runs over
Breakpoints(th) ==
    LET t == threads[th]
        breakpoints == sorted(breakpoint_set(t.sensor_locations, t.utc_offsets,
                                             t.pressure_data_sources, t.calibration_factors))
    IN  /\ t.pc = "breakpoints"
        /\ Step(th, [t EXCEPT !.pc = "segments", !.segments = zip_pairs(breakpoints),
                              !.next = 1, !.sensor_data_contexts = <<>>])
        /\ UNCHANGED <<catalog, call, result, memo, construction, tum_result>>

\* one pass of the loop over the segments
Segment(th) ==
    LET t == threads[th]
        step == segment_step(locations, sensors[t.sensor], t.sensor_locations, t.utc_offsets,
                             t.pressure_data_sources, t.calibration_factors, t.segments[t.next])
    IN  /\ t.pc = "segments"
        /\ t.next <= Len(t.segments)
        /\ Step(th, IF step_escapes(step.raises)
                    THEN Ended(t, Result(step.raises, "This is a bug in the library", <<>>))
                    ELSE [t EXCEPT !.next = @ + 1,
                                   !.sensor_data_contexts = @ \o step.ctx])
        /\ UNCHANGED <<catalog, call, result, memo, construction, tum_result>>

\* the loop has ended: the contexts are marked and returned
Return(th) ==
    LET t == threads[th]
    IN  /\ t.pc = "segments"
        /\ t.next > Len(t.segments)
        /\ Step(th, Ended(t, Result("none", "", mark_multiple_ctx(t.sensor_data_contexts))))
        /\ UNCHANGED <<catalog, call, result, memo, construction, tum_result>>

NextConcurrent ==
    \E th \in Threads :
        \/ Start(th)
        \/ CheckSensor(th)
        \/ CheckRange(th)
        \/ ParseLocations(th)
        \/ FillUtcOffsets(th)
        \/ FillPressureDataSources(th)
        \/ FillCalibrationFactors(th)
        \/ Breakpoints(th)
        \/ Segment(th)
        \/ Return(th)

SpecConcurrent == InitConcurrent /\ [][NextConcurrent]_vars

\* ------------------------------------------- one call of get, step by step
\* The first thread runs one call of get over a sensor whose location series
\* and utc offset series are drawn from every series the constructor accepts;
\* after each step the thread holds what parse_ts_data and
\* fill_ts_data_gaps_with_default returned.
InitSteps ==
    /\ \E uos \in UtcOffsetSeriesInputs :
         /\ Len(uos) <= MaxAcceptedAuxRecs
         /\ \E locs \in LocationSeriesInputs :
              Constructed(TestLocations,
                          <<SensorMetadata(KnownSensorId, locs, uos, <<>>, <<>>)>>,
                          <<>>)
    /\ call = NoCall
    /\ result = NotCalled
    /\ memo = NoMemo
    /\ threads = [th \in Threads |-> IdleThread]
    /\ tum_result = NotCalled

NextSteps ==
    \/ Start(1)
    \/ CheckSensor(1)
    \/ CheckRange(1)
    \/ ParseLocations(1)
    \/ FillUtcOffsets(1)
    \/ FillPressureDataSources(1)
    \/ FillCalibrationFactors(1)
    \/ Breakpoints(1)
    \/ Segment(1)
    \/ Return(1)

SpecSteps == InitSteps /\ [][NextSteps]_vars

\* ----------------------------------- get of tum_esm_em27_metadata alone
\* the candidate series of a tum_esm catalog: any one or two items, in any
\* order; the constructor decides which of them exist
TumSeriesInputs(Vals) == UNION {[1 .. k -> ItemsOf(Vals)] : k \in 0 .. MaxTumRecs}

\* EM27MetadataInterface.__init__ of tum_esm_em27_metadata: the fields are
\* set and the integrity test passes, otherwise no object exists
TumConstructed(locs, sens, camps) ==
    /\ tum_test_data_integrity(locs, sens, camps).error = "none"
    /\ construction = tum_test_data_integrity(locs, sens, camps)
    /\ locations = locs
    /\ sensors = sens
    /\ campaigns = camps
    /\ location_ids = IdsOfLocations(locs)
    /\ sensor_ids = IdsOfSensors(sens)
    /\ campaign_ids = IdsOfCampaigns(camps)

InitTum ==
    /\ \E uos \in TumSeriesInputs(UtcOffsetValues) :
         \E locs \in TumSeriesInputs(LocationValues) :
             TumConstructed(TestLocations,
                            <<SensorMetadata(KnownSensorId, locs, uos, <<>>, <<>>)>>,
                            <<>>)
    /\ call = NoCall
    /\ result = NotCalled
    /\ memo = NoMemo
    /\ threads = NoThreads
    /\ tum_result = NotCalled

\* one call of get of tum_esm_em27_metadata on the object as constructed
TumGet ==
    /\ call = NoCall
    /\ \E sensor_id \in SensorIdInputs, from_datetime \in Time, to_datetime \in Time :
          /\ call' = Call(sensor_id, from_datetime, to_datetime)
          /\ tum_result' = tum_get(locations, sensors, sensor_ids,
                                   sensor_id, from_datetime, to_datetime)
    /\ UNCHANGED <<catalog, result, memo, construction, threads>>

NextTum == TumGet

SpecTum == InitTum /\ [][NextTum]_vars

\* --------------------------------- the same call of get on both packages
\* one catalog that both constructors accept, and get of each package called
\* with the same arguments
InitBoth ==
    /\ \E uos \in UtcOffsetSeriesInputs :
         /\ Len(uos) <= MaxAcceptedAuxRecs
         /\ \E pdss \in PressureSourceSeriesInputs :
              /\ Len(uos) + Len(pdss) <= MaxAcceptedAuxRecs
              /\ \E cfs \in CalibrationSeriesInputs :
                   /\ Len(uos) + Len(pdss) + Len(cfs) <= MaxAcceptedAuxRecs
                   /\ \E locs \in LocationSeriesInputs :
                        LET sens == <<SensorMetadata(KnownSensorId, locs, uos, pdss, cfs)>>
                        IN  /\ Constructed(TestLocations, sens, <<>>)
                            /\ tum_test_data_integrity(TestLocations, sens, <<>>).error = "none"
    /\ call = NoCall
    /\ result = NotCalled
    /\ memo = NoMemo
    /\ threads = NoThreads
    /\ tum_result = NotCalled

GetBoth ==
    /\ call = NoCall
    /\ \E sensor_id \in SensorIdInputs, from_datetime \in Time, to_datetime \in Time :
          /\ call' = Call(sensor_id, from_datetime, to_datetime)
          /\ result' = get(locations, sensors, sensor_ids, sensor_id, from_datetime, to_datetime)
          /\ sensors' = sensors_after_get(sensors, sensor_ids, sensor_id,
                                          from_datetime, to_datetime)
          /\ tum_result' = tum_get(locations, sensors, sensor_ids,
                                   sensor_id, from_datetime, to_datetime)
    /\ UNCHANGED <<locations, campaigns, location_ids, sensor_ids, campaign_ids>>
    /\ UNCHANGED <<memo, construction, threads>>

NextBoth == GetBoth

SpecBoth == InitBoth /\ [][NextBoth]_vars

\* ------------------------------------------------------------ the claims
Called == call # NoCall
KnownCall == Called /\ call.sensor_id \in Range(sensor_ids)
ValidCall == KnownCall /\ call.from_datetime <= call.to_datetime
Returned == ValidCall /\ result.error = "none"

\* the sensor the latest call names
CalledSensor == sensors[CHOOSE i \in 1 .. Len(sensors) : sensors[i].sensor_id = call.sensor_id]

Contexts == result.contexts
Window == call.from_datetime .. call.to_datetime
Instants(x) == x.from_datetime .. x.to_datetime
Holds(ds, t) == {i \in 1 .. Len(ds) : t \in Instants(ds[i])}
CatalogLocation(id) == CHOOSE l \in Range(locations) : l.location_id = id
ContextsAt(t) == {i \in 1 .. Len(Contexts) : t \in Instants(Contexts[i])}
Located(t) == Holds(CalledSensor.locations, t) # {}

\* C1: every context carries, at each of its instants, the catalog location
\* of the location record holding the instant and, for each auxiliary
\* property with a record of the original series holding the instant
\* (window ends included), that record's value
C1_ContextsCarryRecordValues ==
    Returned =>
        \A i \in 1 .. Len(Contexts) : \A t \in Instants(Contexts[i]) :
            LET s == CalledSensor
                ctx == Contexts[i]
            IN  /\ Located(t)
                /\ \A k \in Holds(s.locations, t) :
                      ctx.location = CatalogLocation(s.locations[k].value)
                /\ \A k \in Holds(s.different_utc_offsets, t) :
                      ctx.utc_offset = s.different_utc_offsets[k].value
                /\ \A k \in Holds(s.different_pressure_data_sources, t) :
                      ctx.pressure_data_source = s.different_pressure_data_sources[k].value
                /\ \A k \in Holds(s.different_calibration_factors, t) :
                      ctx.calibration_factors = s.different_calibration_factors[k].value

\* C2 as stated: the contexts of a valid call cover the window exactly, and
\* consecutive contexts are one second apart
C2_ContextsCoverWindow ==
    Returned =>
        /\ UNION {Instants(Contexts[i]) : i \in 1 .. Len(Contexts)} = Window
        /\ \A t \in Window : Cardinality(ContextsAt(t)) = 1
        /\ \A i \in 1 .. Len(Contexts) - 1 :
              Contexts[i].to_datetime + 1 = Contexts[i + 1].from_datetime

\* C2 as amended: the contexts of a valid call lie in the window, no instant is
\* in two of them, and consecutive contexts are at least one second apart
C2_ContextsWithinWindowDisjoint ==
    Returned =>
        /\ UNION {Instants(Contexts[i]) : i \in 1 .. Len(Contexts)} \subseteq Window
        /\ \A t \in Window : Cardinality(ContextsAt(t)) <= 1
        /\ \A i \in 1 .. Len(Contexts) - 1 :
              Contexts[i].to_datetime + 1 <= Contexts[i + 1].from_datetime

\* two contexts with a gap between them, in a window they do not fill
C2_Witness ==
    /\ Returned
    /\ Len(Contexts) >= 2
    /\ \E i \in 1 .. Len(Contexts) - 1 :
          Contexts[i].to_datetime + 1 < Contexts[i + 1].from_datetime
    /\ \E t \in Window : ContextsAt(t) = {}

\* C3: every instant of the window that a location record of the sensor holds
\* is in exactly one returned context
C3_LocatedInstantsInOneContext ==
    Returned =>
        \A t \in Window : Located(t) => Cardinality(ContextsAt(t)) = 1

\* C4: every context lies in the window and in one location record of the
\* sensor, whose location it carries; instants of the window that no location
\* record holds are in no context
C4_ContextsInsideWindowAndRecord ==
    Returned =>
        /\ \A i \in 1 .. Len(Contexts) :
              /\ call.from_datetime <= Contexts[i].from_datetime
              /\ Contexts[i].to_datetime <= call.to_datetime
              /\ \E k \in 1 .. Len(CalledSensor.locations) :
                    /\ CalledSensor.locations[k].from_datetime <= Contexts[i].from_datetime
                    /\ Contexts[i].to_datetime <= CalledSensor.locations[k].to_datetime
                    /\ Contexts[i].location.location_id = CalledSensor.locations[k].value
        /\ \A t \in Window : ~Located(t) => ContextsAt(t) = {}

\* a context next to instants of the window that no location record holds
C4_Witness ==
    /\ Returned
    /\ Len(Contexts) >= 1
    /\ \E t \in Window : ~Located(t)
    /\ Len(CalledSensor.locations) = 2

\* C5: at every instant of a context, an auxiliary property whose original
\* series has no record holding the instant has its default: offset 0, the
\* sensor's own id, unity calibration
C5_DefaultsWhereNoRecord ==
    Returned =>
        \A i \in 1 .. Len(Contexts) : \A t \in Instants(Contexts[i]) :
            LET s == CalledSensor
                ctx == Contexts[i]
            IN  /\ (Holds(s.different_utc_offsets, t) = {}) => ctx.utc_offset = 0
                /\ (Holds(s.different_pressure_data_sources, t) = {}) =>
                       ctx.pressure_data_source = s.sensor_id
                /\ (Holds(s.different_calibration_factors, t) = {}) =>
                       ctx.calibration_factors = 1

\* a context with defaults beside a context that carries a record's values
C5_Witness ==
    /\ Returned
    /\ \E i \in 1 .. Len(Contexts), j \in 1 .. Len(Contexts) :
          /\ Contexts[i].utc_offset = 0
          /\ Contexts[j].utc_offset # 0
          /\ Holds(CalledSensor.different_utc_offsets, Contexts[i].from_datetime) = {}
          /\ Contexts[j].to_datetime + 1 = Contexts[i].from_datetime

\* C6: the contexts are in ascending order and do not overlap
C6_ContextsAscending ==
    Returned =>
        \A i \in 1 .. Len(Contexts) - 1 :
            Contexts[i].to_datetime < Contexts[i + 1].from_datetime

\* two contexts returned
C6_Witness == Returned /\ Len(Contexts) >= 2

\* C7: a call with a sensor id that is not in the catalog raises the
\* unknown-sensor ValueError and returns nothing, whatever the window
C7_UnknownSensorFails ==
    (Called /\ call.sensor_id \notin Range(sensor_ids)) =>
        result = Result("ValueError", "No location data for sensor_id", <<>>)

\* an unknown sensor asked for a window inside a location record
C7_Witness ==
    /\ Called
    /\ call.sensor_id \notin Range(sensor_ids)
    /\ call.from_datetime < call.to_datetime
    /\ \E k \in 1 .. Len(sensors[1].locations) :
          /\ sensors[1].locations[k].from_datetime <= call.from_datetime
          /\ call.to_datetime <= sensors[1].locations[k].to_datetime

\* C8: a known sensor with from > to raises the invalid-range ValueError and
\* returns nothing; from = to is not an invalid range
C8_InvertedRangeFails ==
    KnownCall =>
        /\ (call.from_datetime > call.to_datetime) =>
              result = Result("ValueError", "from_datetime > to_datetime", <<>>)
        /\ (call.from_datetime = call.to_datetime) =>
              /\ result.error # "ValueError"
              /\ result.message # "from_datetime > to_datetime"

\* a known sensor asked for an inverted window
C8_Witness == KnownCall /\ call.from_datetime > call.to_datetime

\* C9: a valid call whose window shares no instant with a location record of
\* the sensor returns the empty list and raises nothing
C9_NoLocationNoContexts ==
    (ValidCall /\ \A t \in Window : ~Located(t)) => result = Result("none", "", <<>>)

\* an unlocated window with an auxiliary record in it, the sensor being
\* located elsewhere
C9_Witness ==
    /\ ValidCall
    /\ \A t \in Window : ~Located(t)
    /\ Len(CalledSensor.locations) >= 1
    /\ \E t \in Window : Holds(CalledSensor.different_utc_offsets, t) # {}

\* C10: a call of get with the arguments of an earlier call returns what
\* the earlier call returned, whatever calls were made before and between
C10_SameCallSameResult ==
    (memo.kept /\ call = memo.call) => result = memo.result

\* the kept call made again after other calls, returning contexts
C10_Witness ==
    /\ memo.kept
    /\ memo.others
    /\ call = memo.call
    /\ result.error = "none"
    /\ Len(result.contexts) >= 1

\* C11: a call of get, returning or raising, leaves the locations, sensors
\* and campaigns lists and the three id lists as they were, every record of
\* every series of every sensor included
C11_GetLeavesCatalog == [][catalog' = catalog]_vars

\* a call that returned contexts, cropped a location record and a record of
\* UTC offsets, and filled a gap beside the latter
C11_Witness ==
    /\ Returned
    /\ Len(Contexts) >= 1
    /\ \E k \in 1 .. Len(CalledSensor.locations) :
          LET d == CalledSensor.locations[k]
          IN  /\ ~crop_skips(d, call.from_datetime, call.to_datetime)
              /\ cropped(d, call.from_datetime, call.to_datetime) # d
    /\ LET parsed == parse_ts_data(CalledSensor.different_utc_offsets,
                                   call.from_datetime, call.to_datetime)
       IN  /\ Len(parsed) = 1
           /\ parsed[1] # CalledSensor.different_utc_offsets[1]
           /\ Len(fill_out(parsed, DefaultUtcOffset, call.from_datetime, call.to_datetime)) > 1

\* C12: every context of a result carries multiple_ctx_on_this_date = TRUE if
\* and only if the result holds more than one context
C12_MarkerForWholeResult ==
    Returned =>
        \A i \in 1 .. Len(Contexts) :
            Contexts[i].multiple_ctx_on_this_date = (Len(Contexts) > 1)

\* a result of two contexts at different locations, both of them marked
C12_Witness ==
    /\ Returned
    /\ Len(Contexts) = 2
    /\ Contexts[1].location # Contexts[2].location
    /\ Contexts[1].multiple_ctx_on_this_date
    /\ Contexts[2].multiple_ctx_on_this_date

\* -------------------------------------------- the claims on construction
Attempted == construction # NotConstructed
Accepted == construction.error = "none"
Rejected == Attempted /\ ~Accepted

\* what the lists handed to the constructor hold, read off the lists
Repeats(ids) == \E i \in 1 .. Len(ids), j \in 1 .. Len(ids) : i # j /\ ids[i] = ids[j]
LocationIdsGiven == {locations[i].location_id : i \in 1 .. Len(locations)}
SensorIdsGiven == {sensors[i].sensor_id : i \in 1 .. Len(sensors)}
RepeatedLocationId == Repeats([i \in 1 .. Len(locations) |-> locations[i].location_id])
RepeatedSensorId == Repeats([i \in 1 .. Len(sensors) |-> sensors[i].sensor_id])
RepeatedCampaignId == Repeats([i \in 1 .. Len(campaigns) |-> campaigns[i].campaign_id])
RepeatedId == RepeatedLocationId \/ RepeatedSensorId \/ RepeatedCampaignId

\* the location ids that records of sensors name and the locations list lacks
UnknownSensorLocations ==
    UNION {{sensors[i].locations[j].value : j \in 1 .. Len(sensors[i].locations)}
           : i \in 1 .. Len(sensors)} \ LocationIdsGiven

\* the sensor and location ids that campaigns name and the lists lack
UnknownCampaignSensors ==
    UNION {Range(campaigns[i].sensor_ids) : i \in 1 .. Len(campaigns)} \ SensorIdsGiven
UnknownCampaignLocations ==
    UNION {Range(campaigns[i].location_ids) : i \in 1 .. Len(campaigns)} \ LocationIdsGiven

SeriesOf(s) ==
    <<s.locations, s.different_utc_offsets, s.different_pressure_data_sources,
      s.different_calibration_factors>>
EmptyOrInverted(ts) == \E i \in 1 .. Len(ts) : ts[i].from_datetime >= ts[i].to_datetime
MeetingOrUnsorted(ts) ==
    \E i \in 1 .. Len(ts) - 1 : ts[i + 1].from_datetime <= ts[i].to_datetime
UnsoundSeries ==
    \E i \in 1 .. Len(sensors) : \E n \in 1 .. 4 :
        EmptyOrInverted(SeriesOf(sensors[i])[n]) \/ MeetingOrUnsorted(SeriesOf(sensors[i])[n])

\* C13: construction fails when two locations, two sensors or two campaigns
\* share an id; the three id lists of a constructed catalog have no duplicates
C13_DuplicateIdsRejected ==
    Attempted =>
        /\ RepeatedId => construction.error # "none"
        /\ Accepted => ~Repeats(location_ids) /\ ~Repeats(sensor_ids) /\ ~Repeats(campaign_ids)

\* two campaigns of one id, over two sensors and two locations of distinct
\* ids, rejected
C13_Witness ==
    /\ Rejected
    /\ RepeatedCampaignId /\ ~RepeatedLocationId /\ ~RepeatedSensorId
    /\ Len(locations) = 2 /\ Len(sensors) = 2
    /\ construction.message = "campaign ids are not unique"

C15_UnknownCampaignRefRejected ==
    Attempted =>
        /\ (UnknownCampaignSensors # {} \/ UnknownCampaignLocations # {}) =>
              construction.error # "none"
        /\ Accepted => (UnknownCampaignSensors = {} /\ UnknownCampaignLocations = {})

\* a campaign whose sensor resolves and whose location does not, rejected
\* with the location's id
C15_Witness ==
    /\ Rejected
    /\ ~RepeatedId
    /\ UnknownSensorLocations = {}
    /\ UnknownCampaignSensors = {}
    /\ \E i \in 1 .. Len(campaigns) : Len(campaigns[i].sensor_ids) = 1
    /\ UnknownCampaignLocations # {}
    /\ construction.message = "unknown location id"
    /\ construction.id \in UnknownCampaignLocations

\* C16: construction fails when a record of a series of a sensor has
\* from >= to or a record starts no later than the record before it ends; in
\* a constructed catalog every record has from < to and every record starts
\* after the record before it ends
C16_UnsoundSeriesRejected ==
    Attempted =>
        /\ UnsoundSeries => construction.error # "none"
        /\ Accepted =>
              \A i \in 1 .. Len(sensors) : \A n \in 1 .. 4 :
                  LET ts == SeriesOf(sensors[i])[n]
                  IN  /\ \A k \in 1 .. Len(ts) : ts[k].from_datetime < ts[k].to_datetime
                      /\ \A k \in 1 .. Len(ts) - 1 :
                            ts[k].to_datetime < ts[k + 1].from_datetime

\* two calibration records of the second sensor that share one instant and
\* nothing else amiss, rejected
C16_Witness ==
    /\ Rejected
    /\ ~RepeatedId
    /\ Len(sensors) = 2
    /\ LET ts == sensors[2].different_calibration_factors
       IN  /\ Len(ts) = 2
           /\ ~EmptyOrInverted(ts)
           /\ ts[1].to_datetime = ts[2].from_datetime
    /\ construction.message = "time periods are overlapping or not sorted"

\* the six checks in the order of the claim: whether the lists violate the
\* check, and whether the error raised is one of that check
Violates(k) ==
    CASE k = 1 -> RepeatedLocationId
      [] k = 2 -> RepeatedSensorId
      [] k = 3 -> RepeatedCampaignId
      [] k = 4 -> UnknownSensorLocations # {}
      [] k = 5 -> UnknownCampaignSensors # {} \/ UnknownCampaignLocations # {}
      [] k = 6 -> UnsoundSeries

Reports(k) ==
    CASE k = 1 -> construction.message = "location ids are not unique"
      [] k = 2 -> construction.message = "sensor ids are not unique"
      [] k = 3 -> construction.message = "campaign ids are not unique"
      [] k = 4 -> /\ construction.message = "unknown location id"
                  /\ construction.id \in UnknownSensorLocations
      [] k = 5 -> \/ /\ construction.message = "unknown sensor id"
                     /\ construction.id \in UnknownCampaignSensors
                  \/ /\ construction.message = "unknown location id"
                     /\ construction.id \in UnknownCampaignLocations
      [] k = 6 -> construction.message \in
                      {"from_datetime has to less equal to_datetime",
                       "time periods are overlapping or not sorted"}

\* C17: construction ends with the error of the earliest violated check in
\* the order location ids, sensor ids, campaign ids, sensor location
\* references, campaign references, series; with no check violated it succeeds
C17_EarliestCheckReported ==
    Attempted =>
        LET violated == {k \in 1 .. 6 : Violates(k)}
        IN  IF violated = {} THEN Accepted
            ELSE /\ construction.error = "AssertionError"
                 /\ Reports(CHOOSE k \in violated : \A j \in violated : k <= j)

\* lists that violate the campaign references and the series at once, and
\* no earlier check: the error is the one of the campaign references
C17_Witness ==
    /\ Rejected
    /\ {k \in 1 .. 6 : Violates(k)} = {5, 6}
    /\ Reports(5)
    /\ ~Reports(6)

\* C18: on a constructed catalog, get for a known sensor and from <= to
\* raises no AssertionError: no segment has two candidates in a series, the
\* asserts that close the gap filler hold, every location id resolves
C18_NoInternalViolation ==
    ValidCall =>
        /\ result.error = "none"
        /\ result.message # "This is a bug in the library"

\* contexts on both sides of a change of UTC offset between two adjacent
\* records, in a catalog whose locations list is not the test's
C18_Witness ==
    /\ Returned
    /\ Len(Contexts) = 2
    /\ Len(CalledSensor.different_utc_offsets) = 2
    /\ Contexts[1].to_datetime + 1 = Contexts[2].from_datetime
    /\ locations # TestLocations

\* the calls of get on the fields as __init__ set them
FieldCalls == {Call(sid, f, t) : sid \in SensorIdInputs \cup {SecondSensorId}, f \in CtorTime, t \in CtorTime}
GetOnFields(c) == get(locations, sensors, sensor_ids, c.sensor_id, c.from_datetime, c.to_datetime)

\* the kinds of error get raises: for an internal invariant violation, for an
\* unknown sensor id, for from > to
InternalViolationKinds ==
    {GetOnFields(c).error : c \in {d \in FieldCalls :
                                      GetOnFields(d).message = "This is a bug in the library"}}
UnknownSensorKinds ==
    {GetOnFields(c).error : c \in {d \in FieldCalls : d.sensor_id \notin Range(sensor_ids)}}
InvalidRangeKinds ==
    {GetOnFields(c).error : c \in {d \in FieldCalls :
                                      /\ d.sensor_id \in Range(sensor_ids)
                                      /\ d.from_datetime > d.to_datetime}}

\* C19: the kind of error get raises for an internal invariant violation is
\* not the kind it raises for an unknown sensor id or for from > to, and not
\* the kind a failing construction-time integrity check raises
C19_InternalKindDistinct ==
    Rejected =>
        \A kind \in InternalViolationKinds :
            /\ kind \notin UnknownSensorKinds
            /\ kind \notin InvalidRangeKinds
            /\ kind # construction.error

\* C19, the part that holds: the kind of an internal invariant violation is
\* neither of the two kinds get raises for its arguments
C19_InternalKindNotArgumentKind ==
    Rejected =>
        \A kind \in InternalViolationKinds :
            kind \notin UnknownSensorKinds \cup InvalidRangeKinds

\* what the thread's call returns or raises when it runs alone on the catalog
Alone(t) == get(locations, sensors, sensor_ids, t.call.sensor_id, t.call.from_datetime, t.call.to_datetime)

\* C20: every call of get that ran interleaved with others on the same
\* catalog ends with the result the same call has when it runs alone
C20_InterleavedAsAlone ==
    \A th \in Threads : threads[th].pc = "done" => threads[th].result = Alone(threads[th])

\* two calls for different windows of one sensor, each under way while the
\* other ran, both ended with contexts
C20_Witness ==
    /\ \A th \in Threads :
          /\ threads[th].pc = "done"
          /\ threads[th].overlapped
          /\ threads[th].result.error = "none"
          /\ Len(threads[th].result.contexts) >= 1
    /\ threads[1].call # threads[2].call
    /\ threads[1].result # threads[2].result

\* ------------------------------------------ the claims on the steps of get
StepThread == threads[1]
StepSensor == sensors[StepThread.sensor]
StepFrom == StepThread.call.from_datetime
StepTo == StepThread.call.to_datetime
\* the thread has just run 'sensor_locations = parse_ts_data(sensor.locations)'
ParsedLocations == StepThread.pc = "utc_offsets"
\* the thread has run 'utc_offsets = fill_ts_data_gaps_with_default(...)'
FilledUtcOffsets ==
    \/ StepThread.pc \in {"pressure_data_sources", "calibration_factors", "breakpoints", "segments"}
    \/ StepThread.pc = "done" /\ StepThread.result.error # "ValueError"

\* the items of ds whose closed interval shares an instant with [f, u], each
\* clipped to [max(from, f), min(to, u)], in the order of ds
ClosedCrop(ds, f, u) ==
    LET kept == SelectSeq(ds, LAMBDA d : (d.from_datetime .. d.to_datetime) \cap (f .. u) # {})
    IN  [i \in 1 .. Len(kept) |->
            [kept[i] EXCEPT !.from_datetime = Max2(@, f), !.to_datetime = Min2(@, u)]]

\* C21: the crop step keeps exactly the records whose closed interval
\* [from_datetime, to_datetime] shares at least one instant with the window
\* [from, to], clips each kept record to [max(rec.from, from), min(rec.to, to)]
\* and keeps the order of the records.
C21_CropKeepsSharedInstants ==
    ParsedLocations =>
        StepThread.sensor_locations = ClosedCrop(StepSensor.locations, StepFrom, StepTo)

\* the series that went into the gap filler
CroppedUtcOffsets == parse_ts_data(StepSensor.different_utc_offsets, StepFrom, StepTo)

\* C22: for every window from <= to and every cropped series that is sorted
\* with to_i < from_(i+1), the empty series among them, the gap filler returns
\* a list that is not empty, whose first item starts at the window's from,
\* whose last item ends at the window's to, and whose consecutive items e1, e2
\* have e1.to + 1s = e2.from.
C22_FilledSeriesTilesWindow ==
    FilledUtcOffsets =>
        LET out == StepThread.utc_offsets
        IN  /\ StepThread.result.message # "This is a bug in the library"
            /\ Len(out) > 0
            /\ out[1].from_datetime = StepFrom
            /\ out[Len(out)].to_datetime = StepTo
            /\ \A i \in 1 .. Len(out) - 1 : out[i].to_datetime + 1 = out[i + 1].from_datetime

\* C22 witness: a record strictly inside the window went through the filler,
\* which put a synthetic item on each side of it.
C22_Witness ==
    /\ FilledUtcOffsets
    /\ Len(CroppedUtcOffsets) = 1
    /\ StepFrom < CroppedUtcOffsets[1].from_datetime
    /\ CroppedUtcOffsets[1].to_datetime < StepTo
    /\ Len(StepThread.utc_offsets) = 3

\* C23: a synthetic default item stands between two consecutive cropped
\* records ds[i], ds[i+1] exactly when ds[i].to + 1s < ds[i+1].from, and it
\* spans [ds[i].to + 1s, ds[i+1].from - 1s]; adjacent records have nothing
\* between them; every cropped record is in the output once, unchanged, in
\* the order of the input.
C23_SyntheticOnlyInGaps ==
    FilledUtcOffsets =>
        LET out == StepThread.utc_offsets
            ds == CroppedUtcOffsets
        IN  /\ SelectSeq(out, LAMBDA d : d.value # DefaultUtcOffset) = ds
            /\ \A i \in 1 .. Len(ds) - 1 :
                  \E p \in 1 .. Len(out) - 1 :
                      /\ out[p] = ds[i]
                      /\ IF ds[i].to_datetime + 1 < ds[i + 1].from_datetime
                         THEN /\ p + 2 <= Len(out)
                              /\ out[p + 1] = Item(ds[i].to_datetime + 1,
                                                   ds[i + 1].from_datetime - 1, DefaultUtcOffset)
                              /\ out[p + 2] = ds[i + 1]
                         ELSE out[p + 1] = ds[i + 1]

\* C23 witness: two cropped records more than a second apart went through
\* the filler.
C23_Witness ==
    /\ FilledUtcOffsets
    /\ Len(CroppedUtcOffsets) = 2
    /\ CroppedUtcOffsets[1].to_datetime + 1 < CroppedUtcOffsets[2].from_datetime

\* two adjacent cropped records went through the filler
C23_AdjacentReached ==
    /\ FilledUtcOffsets
    /\ Len(CroppedUtcOffsets) = 2
    /\ CroppedUtcOffsets[1].to_datetime + 1 = CroppedUtcOffsets[2].from_datetime

\* ------------------------------- the claims on tum_esm_em27_metadata
TumContexts == tum_result.contexts
\* the items of a series of the called sensor that share an instant with the
\* window
InWindow(ds) == {i \in 1 .. Len(ds) : Instants(ds[i]) \cap Window # {}}

\* C24: for every catalog the tum_esm constructor accepts and every window
\* from <= to, get of tum_esm_em27_metadata does not abort on the gap filler's
\* 'This is a bug in the library' post-condition, also when two or more
\* records of an auxiliary series lie inside the window.
C24_TumFillerNeverAborts ==
    ValidCall => tum_result.message # "This is a bug in the library"

\* C25: the tum_esm constructor rejects a series in which a record starts at
\* or before the instant the record before it ends (from_2 <= to_1): in an
\* accepted catalog every consecutive pair has to_1 < from_2.
C25_TumRejectsSharedInstant ==
    Accepted =>
        \A i \in 1 .. Len(sensors) : \A k \in 1 .. 4 :
            LET ts == SeriesOf(sensors[i])[k]
            IN  \A j \in 1 .. Len(ts) - 1 : ts[j].to_datetime < ts[j + 1].from_datetime

\* C25, the rest of it: a series in which a record starts before the record
\* before it ends (from_2 < to_1), or a record ends before it starts, is
\* rejected by the tum_esm constructor.
C25_TumRejectsOverlap ==
    Accepted =>
        \A i \in 1 .. Len(sensors) : \A k \in 1 .. 4 :
            LET ts == SeriesOf(sensors[i])[k]
            IN  /\ \A j \in 1 .. Len(ts) : ts[j].from_datetime <= ts[j].to_datetime
                /\ \A j \in 1 .. Len(ts) - 1 : ts[j].to_datetime <= ts[j + 1].from_datetime

\* ------------------------------------------- the claims on both packages
\* what the claim compares two contexts by
Em27Key(c) ==
    <<c.from_datetime, c.to_datetime, c.location.location_id, c.utc_offset,
      c.pressure_data_source, c.calibration_factors, c.calibration_factors>>
TumKey(c) ==
    <<c.from_datetime, c.to_datetime, c.location.location_id, c.utc_offset,
      c.pressure_data_source, c.pressure_calibration_factor, c.output_calibration_factor>>
Em27Keys == [i \in 1 .. Len(Contexts) |-> Em27Key(Contexts[i])]
TumKeys == [i \in 1 .. Len(TumContexts) |-> TumKey(TumContexts[i])]

\* C26: for every catalog both constructors accept, every known sensor and
\* every window from <= to, the nested-intersection get of
\* tum_esm_em27_metadata and the breakpoint get of em27_metadata return the
\* same sequence of contexts, compared by from, to, location id, utc offset,
\* pressure data source and calibration values.
C26_BothGetsAgree ==
    ValidCall =>
        /\ result.error = "none"
        /\ tum_result.error = "none"
        /\ Em27Keys = TumKeys

\* C26, where both calls return: the two sequences of contexts are the same.
C26_BothGetsAgreeWhenBothReturn ==
    ValidCall /\ result.error = "none" /\ tum_result.error = "none" => Em27Keys = TumKeys

\* C26, away from the window's ends and from items of one instant: when both
\* calls return, every context of em27_metadata is a context of
\* tum_esm_em27_metadata.
C26_Em27ContextsAmongTum ==
    ValidCall /\ result.error = "none" /\ tum_result.error = "none" =>
        Range(Em27Keys) \subseteq Range(TumKeys)

\* --------------------------------- the claims on the contexts of em27_metadata
\* the cropped location records and the gap-filled series of the call
CroppedLocations == parse_ts_data(CalledSensor.locations, call.from_datetime, call.to_datetime)
FilledSeries ==
    <<fill_out(parse_ts_data(CalledSensor.different_utc_offsets,
                             call.from_datetime, call.to_datetime),
               DefaultUtcOffset, call.from_datetime, call.to_datetime),
      fill_out(parse_ts_data(CalledSensor.different_pressure_data_sources,
                             call.from_datetime, call.to_datetime),
               CalledSensor.sensor_id, call.from_datetime, call.to_datetime),
      fill_out(parse_ts_data(CalledSensor.different_calibration_factors,
                             call.from_datetime, call.to_datetime),
               DefaultCalibration, call.from_datetime, call.to_datetime)>>
RecordStarts ==
    {CroppedLocations[i].from_datetime : i \in 1 .. Len(CroppedLocations)}
        \cup UNION {{FilledSeries[k][i].from_datetime : i \in 1 .. Len(FilledSeries[k])} : k \in 1 .. 3}
RecordEnds ==
    {CroppedLocations[i].to_datetime : i \in 1 .. Len(CroppedLocations)}
        \cup UNION {{FilledSeries[k][i].to_datetime : i \in 1 .. Len(FilledSeries[k])} : k \in 1 .. 3}
SameValues(c1, c2) ==
    /\ c1.location = c2.location
    /\ c1.utc_offset = c2.utc_offset
    /\ c1.pressure_data_source = c2.pressure_data_source
    /\ c1.calibration_factors = c2.calibration_factors

\* C27: the contexts get returns are maximal constant segments: no two
\* consecutive contexts that are adjacent in time (ctx[i].to + 1s =
\* ctx[i+1].from) carry the same location, utc offset, pressure data source
\* and calibration values.
C27_ContextsMaximal ==
    Returned =>
        \A i \in 1 .. Len(Contexts) - 1 :
            Contexts[i].to_datetime + 1 = Contexts[i + 1].from_datetime
                => ~SameValues(Contexts[i], Contexts[i + 1])

\* C28: every context starts at the from_datetime of some cropped or
\* gap-filled record and ends at the to_datetime of some such record; no
\* context starts at an instant that is a record's to_datetime or ends at one
\* that is a record's from_datetime, so the segments across the one-second
\* seam between two adjacent records are no contexts.
C28_ContextsFromStartToEnd ==
    Returned =>
        \A i \in 1 .. Len(Contexts) :
            /\ Contexts[i].from_datetime \in RecordStarts \ RecordEnds
            /\ Contexts[i].to_datetime \in RecordEnds \ RecordStarts

\* C28 witness: get returned two contexts on the two sides of a seam.
C28_Witness ==
    /\ Returned
    /\ \E i \in 1 .. Len(Contexts) - 1 :
          Contexts[i].to_datetime + 1 = Contexts[i + 1].from_datetime

\* C29: every context has from_datetime < to_datetime, and a call with
\* from_datetime = to_datetime returns no context, also when that instant
\* lies inside a location record.
C29_ContextsLongerThanAnInstant ==
    Returned =>
        /\ \A i \in 1 .. Len(Contexts) : Contexts[i].from_datetime < Contexts[i].to_datetime
        /\ call.from_datetime = call.to_datetime => Contexts = <<>>

\* C29 witness: get was called for one instant that lies strictly inside a
\* location record, and returned.
C29_Witness ==
    /\ Returned
    /\ call.from_datetime = call.to_datetime
    /\ \E i \in 1 .. Len(CalledSensor.locations) :
          /\ CalledSensor.locations[i].from_datetime < call.from_datetime
          /\ call.from_datetime < CalledSensor.locations[i].to_datetime

\* C30: in get the check that the sensor exists runs before the check of the
\* range: a call with an unknown sensor_id and from_datetime > to_datetime
\* fails with the unknown-sensor error, never with the invalid-range error,
\* in em27_metadata and in tum_esm_em27_metadata.
C30_UnknownSensorBeforeRange ==
    Called /\ call.sensor_id \notin Range(sensor_ids) /\ call.from_datetime > call.to_datetime =>
        /\ result = Result("ValueError", "No location data for sensor_id", <<>>)
        /\ tum_result = Result("AssertionError", "No location data for sensor_id", <<>>)

\* C30 witness: get of both packages was called with an unknown sensor and an
\* inverted window, and both failed.
C30_Witness ==
    /\ Called
    /\ call.sensor_id \notin Range(sensor_ids)
    /\ call.from_datetime > call.to_datetime
    /\ result.error # "none"
    /\ tum_result.error # "none"

====
